---------------------------- MODULE Spec2Model ----------------------------
(***************************************************************************)
(* The order edit form (OrderEdit, src/unnamed/part_002) as a state        *)
(* machine: the component's React state, the data of its queries, the      *)
(* toast it last raised and the updateOrder call it has in flight.  Every  *)
(* handler of the component is one action.  With it, the order view        *)
(* (OrderView.tsx) and the order list (part_003) with their delete         *)
(* handlers, and the date each screen of the application renders.          *)
(*                                                                         *)
(* Numbers.  A price is a whole number of price units and a quantity held  *)
(* by an item is a whole number.  The argument of updateItemQuantity is a  *)
(* rational given in halves (q = h / 2), so that Math.floor has fractional *)
(* and negative inputs to act on.  A field that a fetched record lacks     *)
(* (JavaScript undefined) is a field the TLA+ record does not have.        *)
(***************************************************************************)
EXTENDS Integers, Sequences, FiniteSets, TLC

VARIABLES
    items,         \* useState items (part_002:33)
    customerId,    \* useState customerId (part_002:42)
    employeeId,    \* useState employeeId (part_002:43)
    status,        \* useState status (part_002:44)
    isSubmitting,  \* useState isSubmitting (part_002:47)
    hasChanges,    \* useState hasChanges (part_002:48)
    order,         \* data of the order query (part_002:51), NoOrder until it arrives
    orderQuery,    \* status of the order query: "pending", "success" or "error"
    customers,     \* data of the customers query, <<>> until it arrives (part_002:62)
    employees,     \* data of the employees query, <<>> until it arrives (part_002:72)
    products,      \* data of the products query, <<>> until it arrives (part_002:67)
    toast,         \* the toast raised by the last handler, NoToast when it raised none
    inflight,      \* number of updateOrder calls awaited
    invalidated,   \* the query keys invalidated so far (part_002:237-238)
    route,         \* "edit" while the form is mounted, "view" after navigate (part_002:247)
    rejected,      \* history: a check of handleSubmit has failed since the mount
    deleting,      \* number of deleteOrder calls awaited, by the screen that made them
    display,       \* the date last rendered by a screen other than the order screens
    employeeList,  \* useState employeeList of the employee list (EmployeeList.tsx:17)
    isLoading,     \* useState isLoading of the employee list (EmployeeList.tsx:18)
    awaiting,      \* the handleDelete calls of the employee list at their await, each
                   \* with the employeeList its closure holds
    settled,       \* history: the deleteEmployee calls that have settled, with their result
    count,         \* useState count of useCountAnimation (part_000:48)
    end,           \* the target the hook was last rendered with
    animationFrameId, \* the effect's variable of that name (part_000:52)
    pending,       \* the animation frames requested and neither run nor cancelled,
                   \* each with the end and startTime of its effect's closure
    requested,     \* number of requestAnimationFrame calls so far
    clock,         \* the time stamp of the last frame
    mounted,       \* the dashboard is mounted
    cancelled,     \* history: the ids passed to cancelAnimationFrame
    event          \* the handler that made the last step: its name and, for
                   \* handleSubmit, what it did and the call it issued

vars == <<items, customerId, employeeId, status, isSubmitting, hasChanges,
          order, orderQuery, customers, employees, products, toast, inflight, invalidated,
          route, rejected, deleting, display, employeeList, isLoading, awaiting, settled,
          count, end, animationFrameId, pending, requested, clock, mounted, cancelled,
          event>>

----------------------------------------------------------------------------
(* Bounds of the model. *)

\* addItem is offered while the item list is shorter than this.
MaxItems == 2

\* A screen awaits at most this many deleteOrder calls at a time.
MaxDeletes == 1

----------------------------------------------------------------------------
(* JavaScript values. *)

\* `rec.f || d` for a number field: d when the field is missing or 0.
OrNumber(rec, f, d) == IF f \in DOMAIN rec /\ rec[f] # 0 THEN rec[f] ELSE d

\* `rec.f || d` for a string field: d when the field is missing or "".
OrString(rec, f, d) == IF f \in DOMAIN rec /\ rec[f] # "" THEN rec[f] ELSE d

\* `rec.f || []` for an array field: [] when the field is missing.
OrArray(rec, f) == IF f \in DOMAIN rec THEN rec[f] ELSE <<>>

\* `{...rec, f: v, ...}`: the fields of upd laid over those of rec.
Spread(rec, upd) == upd @@ rec

\* Math.floor of the rational h / 2.
Floor(h) == h \div 2

\* Math.max of two numbers.
Max(a, b) == IF a >= b THEN a ELSE b

\* array.find((x) => x.id === id): the first element with that id, as a
\* sequence of length 0 (undefined) or 1.
FindById(seq, id) ==
    LET found == SelectSeq(seq, LAMBDA x : x.id = id)
    IN  IF found = <<>> THEN <<>> ELSE <<found[1]>>

\* new Date(value): a date when the value parses, else the Invalid Date object,
\* whose getTime() is NaN.  `now` is new Date() without an argument.
ParsableDates == {"2024-03-05"}

InvalidDate == [valid |-> FALSE]

NewDate(value) == IF value \in ParsableDates THEN [valid |-> TRUE, day |-> value] ELSE InvalidDate

NewDateNow == [valid |-> TRUE, day |-> "now"]

\* What a rendering expression comes to: a text, as the sequence of its parts,
\* or an exception thrown.
Returned(text) == [threw |-> FALSE, text |-> text]

Thrown(error) == [threw |-> TRUE, error |-> error]

\* format(date, pattern) of date-fns: the date written in the pattern; it throws
\* a RangeError for the Invalid Date object.
Format(date, pattern) ==
    IF date.valid THEN Returned(<<pattern, date.day>>) ELSE Thrown("RangeError: Invalid time value")

----------------------------------------------------------------------------
(* The data the queries can return. *)

\* The product catalog: Product records (src/src/lib/types.ts:81), the fields the
\* form reads.
Catalog ==
    << [id |-> "p1", name |-> "Phone", price |-> 10, stock |-> 5, status |-> "available"],
       [id |-> "p2", name |-> "Cable", price |-> 20, stock |-> 1, status |-> "available"],
       [id |-> "p3", name |-> "Case", price |-> 10, stock |-> 0, status |-> "available"],
       [id |-> "p4", name |-> "Dock", price |-> 20, stock |-> 3, status |-> "unavailable"] >>

CustomerList == << [id |-> "c1", name |-> "Ann"] >>

EmployeeList == << [id |-> "e1", name |-> "Bob", department |-> "Sales"] >>

Statuses == {"pending", "processing", "completed", "cancelled"}

\* The orders fetchOrderById can return (Order, src/src/lib/types.ts:130).  The store is
\* outside the repository, so a record may lack fields or hold a zero quantity or
\* a date that does not parse, and an order may have no item: the form reads
\* them with `||` defaults (part_002:80-83, 153, 228-229).
FetchedOrders ==
    { [id |-> "o1", customerId |-> "c1", employeeId |-> "e1", status |-> "processing",
       createdAt |-> "2024-03-05",
       items |-> << [id |-> "i1", productId |-> "p1", productName |-> "Phone",
                     quantity |-> 3, price |-> 10] >>],
      [id |-> "o2", customerId |-> "c1", employeeId |-> "e1",
       createdAt |-> "05/03/24 noon",
       items |-> << [id |-> "i1", productId |-> "p3", productName |-> "Case",
                     quantity |-> 0, price |-> 10],
                    [id |-> "i2", productId |-> "p4", productName |-> "Dock",
                     quantity |-> 1] >>],
      [id |-> "o3", customerId |-> "", employeeId |-> "", status |-> "completed",
       createdAt |-> "2024-03-05",
       items |-> << >>] }

NoOrder == [id |-> ""]

\* crypto.randomUUID() (part_002:92): an identifier no item of the list holds.
\* Identifiers are opaque and only compared, so the least unused one of a pool
\* stands for a fresh one.
UuidPool == << "u1", "u2", "u3", "u4" >>

ItemIds(its) == { its[i].id : i \in 1..Len(its) }

\* randomUUID returning one identifier every time.
RandomUUIDRepeated(its) == UuidPool[1]

RandomUUID(its) ==
    UuidPool[CHOOSE n \in 1..Len(UuidPool) :
                /\ UuidPool[n] \notin ItemIds(its)
                /\ \A m \in 1..(n - 1) : UuidPool[m] \in ItemIds(its)]

\* The identifiers removeItem is called with: those of the items shown, and one
\* that no item holds.
AbsentId == "none"

CallIds == ItemIds(items) \cup {AbsentId}

\* Arguments of updateItemQuantity, in halves: -1.5 and 3.5.
QuantityArgs == {-3, 7}

\* Values of a number input (e.target.value): "" for an empty or unparsable
\* entry, else the decimal entered, in halves for the quantity field and in
\* price units for the price field.
EmptyText == [text |-> ""]

NumberText(n) == [text |-> "n", value |-> n]

\* Quantity entries "", "0", "3.5" and price entries "", "-1", "10".
QuantityTexts == {EmptyText, NumberText(0), NumberText(7)}

PriceTexts == {EmptyText, NumberText(-1), NumberText(10)}

\* Price entries for the price input taken alone: those above, "0" and "1000".
PriceTextsWide == PriceTexts \cup {NumberText(0), NumberText(1000)}

\* productId arguments of updateItemPrice: an id of the catalog and one it lacks.
ProductIdArgs == {"p2", "p9"}

\* The createdAt and hireDate values of the records the screens show: a date, a
\* text that is no date, and no value.
DateValues == {"2024-03-05", "05/03/24 noon", ""}

\* What deleteOrder, which is outside the repository, resolves to: success, or
\* failure with or without the store's reason.
DeleteResults ==
    { [success |-> TRUE],
      [success |-> FALSE, error |-> "Only pending orders can be deleted"],
      [success |-> FALSE] }

\* What the order query settles with: an order, no order (null), or an error.
OrderQueryOutcomes ==
    {[kind |-> "order", data |-> o] : o \in FetchedOrders}
        \cup {[kind |-> "absent"], [kind |-> "error"]}

----------------------------------------------------------------------------
(* Pure parts of the handlers. *)

NoToast == [title |-> "", description |-> ""]

\* No date rendered yet.
NoDisplay == [screen |-> ""]

Toast(t, d) == [title |-> t, description |-> d]

\* addItem's new row (part_002:91-97).
NewItem(its) ==
    [id |-> RandomUUID(its), productId |-> "", productName |-> "", quantity |-> 1, price |-> 0]

\* removeItem's test with `>= 1` for `> 1`.
CanRemoveLast(its) == Len(its) >= 1

\* removeItem's test (part_002:103).
CanRemove(its) == Len(its) > 1

\* removeItem's filter with `===` for `!==`.
RemoveFilterKeeping(its, id) == SelectSeq(its, LAMBDA item : item.id = id)

\* removeItem's filter (part_002:104).
RemoveFilter(its, id) == SelectSeq(its, LAMBDA item : item.id # id)

\* updateItemPrice's lookup (part_002:116).
FindProduct(prods, productId) == FindById(prods, productId)

\* updateItemPrice's map without `quantity: 1`.
SelectProductMapKeepingQuantity(its, id, product) ==
    [i \in 1..Len(its) |->
        IF its[i].id = id
        THEN Spread(its[i], [productId |-> product.id, productName |-> product.name,
                             price |-> product.price])
        ELSE its[i]]

\* updateItemPrice's map (part_002:119-129).
SelectProductMap(its, id, product) ==
    [i \in 1..Len(its) |->
        IF its[i].id = id
        THEN Spread(its[i], [productId |-> product.id, productName |-> product.name,
                             price |-> product.price, quantity |-> 1])
        ELSE its[i]]

\* maxQuantity with `|| 1` for `|| 0`.
MaxQuantityAtLeastOne(item, prods) ==
    LET selectedProduct == FindById(prods, item.productId)
    IN  IF selectedProduct = <<>> THEN 1 ELSE OrNumber(selectedProduct[1], "stock", 1)

\* The maxQuantity of an item's row (part_002:401-405): `selectedProduct?.stock || 0`.
MaxQuantity(item, prods) ==
    LET selectedProduct == FindById(prods, item.productId)
    IN  IF selectedProduct = <<>> THEN 0 ELSE OrNumber(selectedProduct[1], "stock", 0)

\* The product select's filter with the current product kept whatever its status.
OfferedWithCurrent(item, prods) ==
    SelectSeq(prods, LAMBDA product :
        (product.status = "available" /\ product.stock > 0) \/ product.id = item.productId)

\* The options of an item's product select (part_002:426-432).
Offered(item, prods) ==
    SelectSeq(prods, LAMBDA product :
        product.status = "available" /\ (product.stock > 0 \/ product.id = item.productId))

\* validQuantity without Math.max(1, ...).
ValidQuantityUnclamped(h) == Floor(h)

\* validQuantity with Math.round for Math.floor.
ValidQuantityRounded(h) == Max(1, (h + 1) \div 2)

\* updateItemQuantity's validQuantity (part_002:136), for the argument h / 2.
ValidQuantity(h) == Max(1, Floor(h))

\* updateItemQuantity's map without the `i.id === id` test.
QuantityMapEvery(its, id, validQuantity) ==
    [i \in 1..Len(its) |-> Spread(its[i], [quantity |-> validQuantity])]

\* updateItemQuantity's map (part_002:138-145).
QuantityMap(its, id, validQuantity) ==
    [i \in 1..Len(its) |->
        IF its[i].id = id THEN Spread(its[i], [quantity |-> validQuantity]) ELSE its[i]]

\* The price input's test with `> 0` for `>= 0`.
AcceptsPricePositive(price) == ~price.nan /\ price.n > 0

\* The price input's test (part_002:459), on the parsed value.
AcceptsPrice(price) == ~price.nan /\ price.n >= 0

\* The price input's map (part_002:461-463).
PriceMap(its, id, price) ==
    [i \in 1..Len(its) |->
        IF its[i].id = id THEN Spread(its[i], [price |-> price]) ELSE its[i]]

\* calculateTotal (part_002:150-155): the reduce, from element i on.
RECURSIVE ReduceTotal(_, _, _)
ReduceTotal(its, i, sum) ==
    IF i > Len(its) THEN sum
    ELSE ReduceTotal(its, i + 1,
                     IF its[i].productId = "" THEN sum
                     ELSE sum + OrNumber(its[i], "price", 0) * OrNumber(its[i], "quantity", 1))

\* calculateTotal without the `!item.productId` skip.
RECURSIVE ReduceTotalNoSkip(_, _, _)
ReduceTotalNoSkip(its, i, sum) ==
    IF i > Len(its) THEN sum
    ELSE ReduceTotalNoSkip(its, i + 1,
                           sum + OrNumber(its[i], "price", 0) * OrNumber(its[i], "quantity", 1))

CalculateTotalNoSkip(its) == ReduceTotalNoSkip(its, 1, 0)

\* calculateTotal with `item.quantity || 0` for `item.quantity || 1`.
RECURSIVE ReduceTotalZeroQuantity(_, _, _)
ReduceTotalZeroQuantity(its, i, sum) ==
    IF i > Len(its) THEN sum
    ELSE ReduceTotalZeroQuantity(its, i + 1,
                                 IF its[i].productId = "" THEN sum
                                 ELSE sum + OrNumber(its[i], "price", 0)
                                            * OrNumber(its[i], "quantity", 0))

CalculateTotalZeroQuantity(its) == ReduceTotalZeroQuantity(its, 1, 0)

\* calculateTotal adding the prices without the quantities.
RECURSIVE ReduceTotalPricesOnly(_, _, _)
ReduceTotalPricesOnly(its, i, sum) ==
    IF i > Len(its) THEN sum
    ELSE ReduceTotalPricesOnly(its, i + 1,
                               IF its[i].productId = "" THEN sum
                               ELSE sum + OrNumber(its[i], "price", 0))

CalculateTotalPricesOnly(its) == ReduceTotalPricesOnly(its, 1, 0)

CalculateTotal(its) == ReduceTotal(its, 1, 0)

\* parseInt and parseFloat of a number input's value (part_002:458, 479).  The
\* quantity text is in halves and parseInt drops the fraction, toward zero.
NaN == [nan |-> TRUE]

Number(n) == [nan |-> FALSE, n |-> n]

ParseInt(t) ==
    IF t.text = "" THEN NaN
    ELSE IF t.value >= 0 THEN Number(t.value \div 2) ELSE Number(-((-t.value) \div 2))

ParseFloat(t) == IF t.text = "" THEN NaN ELSE Number(t.value)

\* handleSubmit's checks without `items.some((item) => !item.productId)`.
ValidationToastNoProductCheck(cid, eid, its, custs, emps) ==
    IF cid = "" THEN
        Toast("Customer required", "Please select a customer for this order")
    ELSE IF eid = "" THEN
        Toast("Employee required", "Please select an employee who processed this order")
    ELSE IF Len(its) = 0 THEN
        Toast("Products required", "Please add at least one product to the order")
    ELSE IF FindById(custs, cid) = <<>> THEN
        Toast("Error", "Selected customer not found")
    ELSE IF FindById(emps, eid) = <<>> THEN
        Toast("Error", "Selected employee not found")
    ELSE NoToast

\* handleSubmit's checks with `items.length <= 1` for `items.length === 0`.
ValidationToastTwoItems(cid, eid, its, custs, emps) ==
    IF cid = "" THEN
        Toast("Customer required", "Please select a customer for this order")
    ELSE IF eid = "" THEN
        Toast("Employee required", "Please select an employee who processed this order")
    ELSE IF Len(its) <= 1 \/ \E i \in 1..Len(its) : its[i].productId = "" THEN
        Toast("Products required", "Please add at least one product to the order")
    ELSE IF FindById(custs, cid) = <<>> THEN
        Toast("Error", "Selected customer not found")
    ELSE IF FindById(emps, eid) = <<>> THEN
        Toast("Error", "Selected employee not found")
    ELSE NoToast

\* handleSubmit's checks (part_002:163-210): the toast of the first check that
\* fails, NoToast when all pass.
ValidationToast(cid, eid, its, custs, emps) ==
    IF cid = "" THEN
        Toast("Customer required", "Please select a customer for this order")
    ELSE IF eid = "" THEN
        Toast("Employee required", "Please select an employee who processed this order")
    ELSE IF Len(its) = 0 \/ \E i \in 1..Len(its) : its[i].productId = "" THEN
        Toast("Products required", "Please add at least one product to the order")
    ELSE IF FindById(custs, cid) = <<>> THEN
        Toast("Error", "Selected customer not found")
    ELSE IF FindById(emps, eid) = <<>> THEN
        Toast("Error", "Selected employee not found")
    ELSE NoToast

\* The items of updateOrder's argument (part_002:224-230).
PayloadItems(its) ==
    [i \in 1..Len(its) |->
        [id |-> its[i].id, productId |-> its[i].productId,
         productName |-> OrString(its[i], "productName", ""),
         quantity |-> OrNumber(its[i], "quantity", 1),
         price |-> OrNumber(its[i], "price", 0)]]

\* updateOrder's argument (part_002:216-233).
Payload(cid, eid, its, st, custs, emps) ==
    [customerId |-> cid, customerName |-> FindById(custs, cid)[1].name,
     employeeId |-> eid, employeeName |-> FindById(emps, eid)[1].name,
     items |-> PayloadItems(its), total |-> CalculateTotal(its), status |-> st]

----------------------------------------------------------------------------
(* The component. *)

\* The employee list is not open: its state as constructed
\* (EmployeeList.tsx:17-18).
NoEmployeeScreen ==
    /\ employeeList = <<>>
    /\ isLoading = TRUE
    /\ awaiting = {}
    /\ settled = {}

\* The dashboard is not open: no count is animated.
NoDashboard ==
    /\ count = 0
    /\ end = 0
    /\ animationFrameId = [effect |-> 0, id |-> 0]
    /\ pending = {}
    /\ requested = 0
    /\ clock = 0
    /\ mounted = FALSE
    /\ cancelled = {}

Init ==
    /\ items = <<>>
    /\ customerId = ""
    /\ employeeId = ""
    /\ status = "pending"
    /\ isSubmitting = FALSE
    /\ hasChanges = FALSE
    /\ order = NoOrder
    /\ orderQuery = "pending"
    /\ customers = <<>>
    /\ employees = <<>>
    /\ products = <<>>
    /\ toast = NoToast
    /\ inflight = 0
    /\ invalidated = {}
    /\ route = "edit"
    /\ rejected = FALSE
    /\ deleting = [view |-> 0, list |-> 0]
    /\ display = NoDisplay
    /\ NoEmployeeScreen
    /\ NoDashboard
    /\ event = [op |-> "mount"]

\* The form is rendered, and its handlers can be called, once the order query
\* has data (part_002:272-292) and until the form navigates away.  The order
\* query runs only with a route id (part_002:58), so `!id` (part_002:160) is
\* false whenever the form is rendered.
Rendered == route = "edit" /\ order # NoOrder /\ orderQuery = "success"

queries == <<order, orderQuery, customers, employees, products>>

parties == <<customerId, employeeId, status>>

commit == <<isSubmitting, inflight, invalidated, route, rejected>>

\* What the employee list holds.
employeeScreen == <<employeeList, isLoading, awaiting, settled>>

\* What the count animation of the dashboard holds.
dashboard == <<count, end, animationFrameId, pending, requested, clock, mounted, cancelled>>

\* What the screens other than the edit form hold.
others == <<deleting, display, employeeScreen, dashboard>>

\* The customers, employees and products queries deliver their data
\* (part_002:62-75).
CustomersArrive ==
    /\ route = "edit" /\ customers = <<>>
    /\ customers' = CustomerList
    /\ toast' = NoToast
    /\ event' = [op |-> "customers"]
    /\ UNCHANGED <<items, hasChanges, parties, commit, order, orderQuery,
                   employees, products, others>>

EmployeesArrive ==
    /\ route = "edit" /\ employees = <<>>
    /\ employees' = EmployeeList
    /\ toast' = NoToast
    /\ event' = [op |-> "employees"]
    /\ UNCHANGED <<items, hasChanges, parties, commit, order, orderQuery,
                   customers, products, others>>

ProductsArrive ==
    /\ route = "edit" /\ products = <<>>
    /\ products' = Catalog
    /\ toast' = NoToast
    /\ event' = [op |-> "products"]
    /\ UNCHANGED <<items, hasChanges, parties, commit, order, orderQuery,
                   customers, employees, others>>

\* The effect leaving a form with unsaved edits as it is.
OrderEffectKeepingEdits(o) ==
    /\ route = "edit" /\ o # order
    /\ order' = o
    /\ orderQuery' = "success"
    /\ IF hasChanges
       THEN UNCHANGED <<items, parties, hasChanges>>
       ELSE /\ items' = OrArray(o, "items")
            /\ customerId' = OrString(o, "customerId", "")
            /\ employeeId' = OrString(o, "employeeId", "")
            /\ status' = OrString(o, "status", "pending")
            /\ hasChanges' = FALSE
    /\ toast' = NoToast
    /\ event' = [op |-> "order", edited |-> hasChanges]
    /\ UNCHANGED <<commit, customers, employees, products, others>>

\* The order query delivers data, new or changed, and the effect copies it
\* into the form (part_002:78-86).  edited tells whether the form held
\* unsaved edits.
OrderEffect(o) ==
    /\ route = "edit" /\ o # order
    /\ order' = o
    /\ orderQuery' = "success"
    /\ items' = OrArray(o, "items")
    /\ customerId' = OrString(o, "customerId", "")
    /\ employeeId' = OrString(o, "employeeId", "")
    /\ status' = OrString(o, "status", "pending")
    /\ hasChanges' = FALSE
    /\ toast' = NoToast
    /\ event' = [op |-> "order", edited |-> hasChanges]
    /\ UNCHANGED <<commit, customers, employees, products, others>>

\* addItem without setHasChanges(true).
AddItemSilently ==
    /\ Rendered /\ Len(items) < MaxItems
    /\ items' = Append(items, NewItem(items))
    /\ UNCHANGED hasChanges
    /\ toast' = NoToast
    /\ event' = [op |-> "addItem"]
    /\ UNCHANGED <<parties, commit, queries, others>>

\* addItem (part_002:88-100).
AddItem ==
    /\ Rendered /\ Len(items) < MaxItems
    /\ items' = Append(items, NewItem(items))
    /\ hasChanges' = TRUE
    /\ toast' = NoToast
    /\ event' = [op |-> "addItem"]
    /\ UNCHANGED <<parties, commit, queries, others>>

\* removeItem (part_002:102-113).
RemoveItem(id) ==
    /\ Rendered
    /\ IF CanRemove(items)
       THEN /\ items' = RemoveFilter(items, id)
            /\ hasChanges' = TRUE
            /\ toast' = NoToast
       ELSE /\ toast' = Toast("Cannot remove item", "Orders must have at least one item")
            /\ UNCHANGED <<items, hasChanges>>
    /\ event' = [op |-> "removeItem"]
    /\ UNCHANGED <<parties, commit, queries, others>>

\* updateItemPrice (part_002:115-133).
UpdateItemPrice(id, productId) ==
    /\ Rendered
    /\ LET product == FindProduct(products, productId)
       IN  IF product # <<>>
           THEN /\ items' = SelectProductMap(items, id, product[1])
                /\ hasChanges' = TRUE
           ELSE UNCHANGED <<items, hasChanges>>
    /\ toast' = NoToast
    /\ event' = [op |-> "updateItemPrice"]
    /\ UNCHANGED <<parties, commit, queries, others>>

\* updateItemQuantity saving the order as it edits.
UpdateItemQuantityAutosaving(id, h) ==
    /\ Rendered
    /\ items' = QuantityMap(items, id, ValidQuantity(h))
    /\ hasChanges' = TRUE
    /\ toast' = NoToast
    /\ event' = [op |-> "updateItemQuantity"]
    /\ inflight' = inflight + 1
    /\ UNCHANGED <<parties, isSubmitting, invalidated, route, rejected, queries, others>>

\* updateItemQuantity (part_002:135-148), called with the quantity h / 2.
UpdateItemQuantity(id, h) ==
    /\ Rendered
    /\ items' = QuantityMap(items, id, ValidQuantity(h))
    /\ hasChanges' = TRUE
    /\ toast' = NoToast
    /\ event' = [op |-> "updateItemQuantity"]
    /\ UNCHANGED <<parties, commit, queries, others>>

\* The quantity input's onChange (part_002:478-483): it calls updateItemQuantity
\* with the parsed whole number, when there is one and it is at least 1.
QuantityInputChange(id, t) ==
    /\ Rendered
    /\ LET quantity == ParseInt(t)
       IN  IF ~quantity.nan /\ quantity.n >= 1
           THEN /\ items' = QuantityMap(items, id, ValidQuantity(2 * quantity.n))
                /\ hasChanges' = TRUE
           ELSE UNCHANGED <<items, hasChanges>>
    /\ toast' = NoToast
    /\ event' = [op |-> "quantityInput"]
    /\ UNCHANGED <<parties, commit, queries, others>>

\* The price input's onChange (part_002:457-467).
PriceInputChange(id, t) ==
    /\ Rendered
    /\ LET price == ParseFloat(t)
       IN  IF AcceptsPrice(price)
           THEN /\ items' = PriceMap(items, id, price.n)
                /\ hasChanges' = TRUE
           ELSE UNCHANGED <<items, hasChanges>>
    /\ toast' = NoToast
    /\ event' = [op |-> "priceInput"]
    /\ UNCHANGED <<parties, commit, queries, others>>

\* clampQuantityToStock as the specification has it: the caller of the quantity
\* handler brings the quantity of an item down to the maximum of its row and
\* passes the result to updateItemQuantity, which applies its own lower bound.
\* The form has no such step of its own; it is the step of one who uses it.
Min(a, b) == IF a <= b THEN a ELSE b

ClampQuantityToStock(id) ==
    /\ Rendered
    /\ \E i \in 1..Len(items) :
          /\ items[i].id = id
          /\ items' = QuantityMap(items, id,
                                  ValidQuantity(2 * Min(OrNumber(items[i], "quantity", 1),
                                                        MaxQuantity(items[i], products))))
    /\ hasChanges' = TRUE
    /\ toast' = NoToast
    /\ event' = [op |-> "clampQuantityToStock"]
    /\ UNCHANGED <<parties, commit, queries, others>>

\* The customer, employee and status selects (part_002:322, 340, 357-361).
SetCustomerId(c) ==
    /\ Rendered
    /\ customerId' = c
    /\ toast' = NoToast
    /\ event' = [op |-> "setCustomerId"]
    /\ UNCHANGED <<items, hasChanges, employeeId, status, commit, queries, others>>

SetEmployeeId(e) ==
    /\ Rendered
    /\ employeeId' = e
    /\ toast' = NoToast
    /\ event' = [op |-> "setEmployeeId"]
    /\ UNCHANGED <<items, hasChanges, customerId, status, commit, queries, others>>

\* The status select refusing to leave "completed" and "cancelled".
SetStatusFromOpenOnly(value) ==
    /\ Rendered
    /\ status \notin {"completed", "cancelled"}
    /\ status' = value
    /\ toast' = NoToast
    /\ event' = [op |-> "setStatus"]
    /\ UNCHANGED <<items, hasChanges, customerId, employeeId, commit, queries, others>>

SetStatus(value) ==
    /\ Rendered
    /\ status' = value
    /\ toast' = NoToast
    /\ event' = [op |-> "setStatus"]
    /\ UNCHANGED <<items, hasChanges, customerId, employeeId, commit, queries, others>>

\* The Cancel button (part_002:533-538): the form is left for the order view.
\* What a call still awaited does after the form is left is not followed.
Cancel ==
    /\ Rendered
    /\ route' = "view"
    /\ toast' = NoToast
    /\ event' = [op |-> "cancel"]
    /\ UNCHANGED <<items, hasChanges, parties, isSubmitting, inflight, invalidated, rejected,
                   queries, others>>

\* handleSubmit with setIsSubmitting(true) ahead of the checks.
HandleSubmitLocking ==
    /\ Rendered
    /\ LET failed == ValidationToast(customerId, employeeId, items, customers, employees)
       IN  IF isSubmitting THEN
               /\ toast' = NoToast
               /\ event' = [op |-> "handleSubmit", outcome |-> "ignored"]
               /\ UNCHANGED <<isSubmitting, inflight, rejected>>
           ELSE IF failed # NoToast THEN
               /\ toast' = failed
               /\ event' = [op |-> "handleSubmit", outcome |-> "rejected"]
               /\ rejected' = TRUE
               /\ isSubmitting' = TRUE
               /\ UNCHANGED inflight
           ELSE
               /\ isSubmitting' = TRUE
               /\ inflight' = inflight + 1
               /\ toast' = NoToast
               /\ UNCHANGED rejected
               /\ event' = [op |-> "handleSubmit", outcome |-> "sent",
                            payload |-> Payload(customerId, employeeId, items, status,
                                                customers, employees)]
    /\ UNCHANGED <<items, hasChanges, parties, invalidated, route, queries, others>>

\* handleSubmit without the isSubmitting test of its first line.
HandleSubmitReentrant ==
    /\ Rendered
    /\ LET failed == ValidationToast(customerId, employeeId, items, customers, employees)
       IN  IF failed # NoToast THEN
               /\ toast' = failed
               /\ event' = [op |-> "handleSubmit", outcome |-> "rejected"]
               /\ rejected' = TRUE
               /\ UNCHANGED <<isSubmitting, inflight>>
           ELSE
               /\ isSubmitting' = TRUE
               /\ inflight' = inflight + 1
               /\ toast' = NoToast
               /\ UNCHANGED rejected
               /\ event' = [op |-> "handleSubmit", outcome |-> "sent",
                            payload |-> Payload(customerId, employeeId, items, status,
                                                customers, employees)]
    /\ UNCHANGED <<items, hasChanges, parties, invalidated, route, queries, others>>

\* handleSubmit up to its await (part_002:157-233).  outcome is "ignored" for
\* the return of line 160, "rejected" for a failed check and "sent" when
\* updateOrder is called, with the argument of the call.
HandleSubmit ==
    /\ Rendered
    /\ LET failed == ValidationToast(customerId, employeeId, items, customers, employees)
       IN  IF isSubmitting THEN
               /\ toast' = NoToast
               /\ event' = [op |-> "handleSubmit", outcome |-> "ignored"]
               /\ UNCHANGED <<isSubmitting, inflight, rejected>>
           ELSE IF failed # NoToast THEN
               /\ toast' = failed
               /\ event' = [op |-> "handleSubmit", outcome |-> "rejected"]
               /\ rejected' = TRUE
               /\ UNCHANGED <<isSubmitting, inflight>>
           ELSE
               /\ isSubmitting' = TRUE
               /\ inflight' = inflight + 1
               /\ toast' = NoToast
               /\ UNCHANGED rejected
               /\ event' = [op |-> "handleSubmit", outcome |-> "sent",
                            payload |-> Payload(customerId, employeeId, items, status,
                                                customers, employees)]
    /\ UNCHANGED <<items, hasChanges, parties, invalidated, route, queries, others>>

\* The messages of the errors updateOrder, which is outside the repository, can
\* throw.
StoreErrors == {"permission denied", "row not found"}

\* The ways the awaited updateOrder settles: with the updated order, with
\* nothing, or with an error thrown.
SettleResults ==
    {[kind |-> "order"], [kind |-> "null"]}
        \cup {[kind |-> "throws", error |-> e] : e \in StoreErrors}

\* The error the catch block receives (part_002:249-251): the one updateOrder
\* threw, or the form's own for no order returned.
CaughtError(result) ==
    IF result.kind = "throws" THEN result.error ELSE "Failed to update order"

\* The catch block's toast with the message of the error caught.
UpdateFailedToastVerbatim(error) == Toast("Update failed", error)

\* The catch block's toast (part_002:253-258).
UpdateFailedToast(error) ==
    Toast("Update failed", "There was a problem updating the order. Please try again.")

\* handleSubmit's completion with the catch block calling updateOrder again.
UpdateOrderSettlesRetrying(result) ==
    /\ route = "edit" /\ inflight > 0
    /\ IF result.kind = "order"
       THEN /\ invalidated' = invalidated \cup {"orders", "order"}
            /\ toast' = Toast("Order updated", "updated successfully")
            /\ route' = "view"
            /\ event' = [op |-> "updateOrderSettles", result |-> result]
       ELSE /\ toast' = UpdateFailedToast(CaughtError(result))
            /\ event' = [op |-> "updateOrderSettles", result |-> result,
                         caught |-> CaughtError(result)]
            /\ UNCHANGED <<invalidated, route>>
    /\ isSubmitting' = FALSE
    /\ inflight' = IF result.kind = "order" THEN inflight - 1 ELSE inflight
    /\ UNCHANGED <<items, hasChanges, parties, queries, rejected, others>>

\* The awaited updateOrder settles and handleSubmit resumes (part_002:235-261).
\* caught is the error the catch block received and wrote to the console.
UpdateOrderSettles(result) ==
    /\ route = "edit" /\ inflight > 0
    /\ IF result.kind = "order"
       THEN /\ invalidated' = invalidated \cup {"orders", "order"}
            /\ toast' = Toast("Order updated", "updated successfully")
            /\ route' = "view"
            /\ event' = [op |-> "updateOrderSettles", result |-> result]
       ELSE /\ toast' = UpdateFailedToast(CaughtError(result))
            /\ event' = [op |-> "updateOrderSettles", result |-> result,
                         caught |-> CaughtError(result)]
            /\ UNCHANGED <<invalidated, route>>
    /\ isSubmitting' = FALSE
    /\ inflight' = inflight - 1
    /\ UNCHANGED <<items, hasChanges, parties, queries, rejected, others>>

----------------------------------------------------------------------------
(* The order view, the order list and the dates of the other screens. *)

\* The hire date of EmployeeList (EmployeeList.tsx:56-66) and of the employee
\* view (part_004:196-207).
HireDateText(hireDate, pattern) ==
    LET date == NewDate(hireDate)
    IN  IF ~date.valid THEN Returned(<<"Invalid Date">>)
        ELSE LET formatted == Format(date, pattern)
             IN  IF formatted.threw THEN Returned(<<"Invalid Date">>) ELSE formatted

\* loadProducts and loadProduct (ProductList.tsx:27, part_005:36).
ProductCreatedAt(createdAt) == IF createdAt # "" THEN NewDate(createdAt) ELSE NewDateNow

\* formatDate of the product list and view (ProductList.tsx:94-106,
\* part_005:46-58), for the Date object the load has made.
FormatDate(dateObj) ==
    IF ~dateObj.valid THEN Returned(<<"Invalid Date">>)
    ELSE LET formatted == Format(dateObj, "MMM d, yyyy")
         IN  IF formatted.threw THEN Returned(<<"Invalid Date">>) ELSE formatted

\* The date expressions of the customer list (part_001:40-41), the customer
\* view (CustomerView.tsx:116), the order list (part_003:71) and the order view
\* (OrderView.tsx:146, 210).
CreatedAtText(createdAt, pattern) == Format(NewDate(createdAt), pattern)

\* The screens with a date, other than the order view.
DateScreens ==
    {"CustomerList", "CustomerView", "EmployeeList", "EmployeeView",
     "ProductList", "ProductView", "OrderList"}

\* The date a screen renders for a record with the given date value.
DateOnScreen(screen, value) ==
    CASE screen = "CustomerList" -> CreatedAtText(value, "MMM d, yyyy")
      [] screen = "CustomerView" -> CreatedAtText(value, "MMMM d, yyyy")
      [] screen = "EmployeeList" -> HireDateText(value, "MMM d, yyyy")
      [] screen = "EmployeeView" -> HireDateText(value, "MMMM d, yyyy")
      [] screen = "ProductList" -> FormatDate(ProductCreatedAt(value))
      [] screen = "ProductView" -> FormatDate(ProductCreatedAt(value))
      [] screen = "OrderList" -> CreatedAtText(value, "MMM d, yyyy")

\* What OrderView renders (OrderView.tsx:97-147): the skeleton, the "Order Not
\* Found" layout or the details; "failed" when rendering the details throws.
OrderViewScreen ==
    IF orderQuery = "pending" \/ order = NoOrder THEN "skeleton"
    ELSE IF orderQuery = "error" THEN "notFound"
    ELSE IF CreatedAtText(order.createdAt, "PPP").threw THEN "failed"
    ELSE "details"

\* What OrderEdit renders (part_002:272-294).
OrderEditScreen ==
    IF orderQuery = "pending" THEN "skeleton"
    ELSE IF orderQuery = "error" \/ order = NoOrder THEN "error"
    ELSE "form"

\* The order query of the order view settles (OrderView.tsx:34-42).  On an
\* error the query keeps the data it had.
OrderQuerySettles(outcome) ==
    /\ route = "view"
    /\ IF outcome.kind = "error"
       THEN /\ orderQuery' = "error"
            /\ UNCHANGED order
       ELSE /\ orderQuery' = "success"
            /\ order' = IF outcome.kind = "order" THEN outcome.data ELSE NoOrder
    /\ <<order', orderQuery'>> # <<order, orderQuery>>
    /\ toast' = NoToast
    /\ event' = [op |-> "orderQuery"]
    /\ UNCHANGED <<items, hasChanges, parties, commit, customers, employees, products, others>>

\* "Back to Orders" of the order view (OrderView.tsx:101, 125, 150).
BackToOrders ==
    /\ route = "view" /\ OrderViewScreen # "failed"
    /\ route' = "list"
    /\ toast' = NoToast
    /\ event' = [op |-> "backToOrders"]
    /\ UNCHANGED <<items, hasChanges, parties, isSubmitting, inflight, invalidated, rejected,
                   queries, others>>

\* The failure toast of handleDelete without the store's reason.
DeleteFailedToastGeneric(result) ==
    Toast("Cannot delete order", "Failed to delete the order. Please try again.")

\* The failure toast of handleDelete (OrderView.tsx:73-78, part_003:88-93).
DeleteFailedToast(result) ==
    Toast("Cannot delete order",
          OrString(result, "error", "Failed to delete the order. Please try again."))

DeletedToast == Toast("Order deleted", "The order has been successfully deleted.")

\* handleDelete of the order view up to its await (OrderView.tsx:57-60), from
\* the confirmation dialog of the details.
OrderViewHandleDelete ==
    /\ route = "view" /\ OrderViewScreen = "details"
    /\ deleting.view < MaxDeletes
    /\ deleting' = [deleting EXCEPT !.view = @ + 1]
    /\ toast' = NoToast
    /\ event' = [op |-> "handleDelete", screen |-> "view"]
    /\ UNCHANGED <<items, hasChanges, parties, commit, queries, display, employeeScreen,
                   dashboard>>

\* deleteOrder settles and handleDelete of the order view resumes
\* (OrderView.tsx:62-79).
OrderViewDeleteSettles(result) ==
    /\ deleting.view > 0
    /\ deleting' = [deleting EXCEPT !.view = @ - 1]
    /\ IF result.success
       THEN /\ toast' = DeletedToast
            /\ invalidated' = invalidated \cup {"orders"}
            /\ route' = "list"
       ELSE /\ toast' = DeleteFailedToast(result)
            /\ UNCHANGED <<invalidated, route>>
    /\ event' = [op |-> "deleteSettles", screen |-> "view", result |-> result]
    /\ UNCHANGED <<items, hasChanges, parties, isSubmitting, inflight, rejected, queries,
                   display, employeeScreen, dashboard>>

\* handleDelete of the order list up to its await (part_003:79-80).
OrderListHandleDelete ==
    /\ route = "list"
    /\ deleting.list < MaxDeletes
    /\ deleting' = [deleting EXCEPT !.list = @ + 1]
    /\ toast' = NoToast
    /\ event' = [op |-> "handleDelete", screen |-> "list"]
    /\ UNCHANGED <<items, hasChanges, parties, commit, queries, display, employeeScreen,
                   dashboard>>

\* deleteOrder settles and handleDelete of the order list resumes
\* (part_003:82-94).
OrderListDeleteSettles(result) ==
    /\ deleting.list > 0
    /\ deleting' = [deleting EXCEPT !.list = @ - 1]
    /\ toast' = IF result.success THEN DeletedToast ELSE DeleteFailedToast(result)
    /\ event' = [op |-> "deleteSettles", screen |-> "list", result |-> result]
    /\ UNCHANGED <<items, hasChanges, parties, commit, queries, display, employeeScreen,
                   dashboard>>

\* A screen with a date is opened and renders a record with the given date
\* value.
OpenScreen(screen, value) ==
    /\ route \in {"view", "list"} \cup DateScreens
    /\ route = "view" => OrderViewScreen # "failed"
    /\ route \in DateScreens => ~display.result.threw
    /\ route' = screen
    /\ display' = [screen |-> screen, value |-> value, result |-> DateOnScreen(screen, value)]
    /\ toast' = NoToast
    /\ event' = [op |-> "openScreen"]
    /\ UNCHANGED <<items, hasChanges, parties, isSubmitting, inflight, invalidated, rejected,
                   queries, deleting, employeeScreen, dashboard>>

\* The order view opened on its own: the state of the mount, on the route of
\* the view.
InitView ==
    /\ items = <<>>
    /\ customerId = ""
    /\ employeeId = ""
    /\ status = "pending"
    /\ isSubmitting = FALSE
    /\ hasChanges = FALSE
    /\ order = NoOrder
    /\ orderQuery = "pending"
    /\ customers = <<>>
    /\ employees = <<>>
    /\ products = <<>>
    /\ toast = NoToast
    /\ inflight = 0
    /\ invalidated = {}
    /\ route = "view"
    /\ rejected = FALSE
    /\ deleting = [view |-> 0, list |-> 0]
    /\ display = NoDisplay
    /\ NoEmployeeScreen
    /\ NoDashboard
    /\ event = [op |-> "mount"]

NextView ==
    \/ \E outcome \in OrderQueryOutcomes : OrderQuerySettles(outcome)
    \/ BackToOrders
    \/ OrderViewHandleDelete
    \/ \E result \in DeleteResults : OrderViewDeleteSettles(result)
    \/ OrderListHandleDelete
    \/ \E result \in DeleteResults : OrderListDeleteSettles(result)
    \/ \E screen \in DateScreens, value \in DateValues : OpenScreen(screen, value)

SpecView == InitView /\ [][NextView]_vars

----------------------------------------------------------------------------
(* The employee list (src/src/pages/employees/EmployeeList.tsx). *)

\* handleDelete is called at most this many times.
MaxCalls == 3

\* The employees fetchEmployees returns.
FetchedEmployees ==
    << [id |-> "e1", name |-> "Bob", department |-> "Sales"],
       [id |-> "e2", name |-> "Cy", department |-> "Sales"],
       [id |-> "e3", name |-> "Di", department |-> "Stock"] >>

EmployeeIds == {FetchedEmployees[i].id : i \in 1..Len(FetchedEmployees)}

\* What deleteEmployee, which is outside the repository, settles with: success,
\* failure with or without the store's reason, or an exception.
DeleteEmployeeResults ==
    { [threw |-> FALSE, success |-> TRUE],
      [threw |-> FALSE, success |-> FALSE, error |-> "Employee has orders"],
      [threw |-> FALSE, success |-> FALSE],
      [threw |-> TRUE, success |-> FALSE] }

\* What the edit form and the order screens hold, and the dashboard.
beyondEmployees == <<items, hasChanges, parties, commit, queries, deleting, display, dashboard>>

\* The employee list opened on its own, before fetchEmployees settles
\* (EmployeeList.tsx:14-18).
InitEmployees ==
    /\ items = <<>>
    /\ customerId = ""
    /\ employeeId = ""
    /\ status = "pending"
    /\ isSubmitting = FALSE
    /\ hasChanges = FALSE
    /\ order = NoOrder
    /\ orderQuery = "pending"
    /\ customers = <<>>
    /\ employees = <<>>
    /\ products = <<>>
    /\ toast = NoToast
    /\ inflight = 0
    /\ invalidated = {}
    /\ route = "EmployeeList"
    /\ rejected = FALSE
    /\ deleting = [view |-> 0, list |-> 0]
    /\ display = NoDisplay
    /\ NoEmployeeScreen
    /\ NoDashboard
    /\ event = [op |-> "mount"]

\* loadEmployees after its await (EmployeeList.tsx:21-35): the fetched list is
\* stored, or the failure is reported; either way the loading state ends.
LoadEmployeesSettles(loaded) ==
    /\ route = "EmployeeList" /\ isLoading
    /\ IF loaded
       THEN /\ employeeList' = FetchedEmployees
            /\ toast' = NoToast
       ELSE /\ UNCHANGED employeeList
            /\ toast' = Toast("Error", "Failed to load employees. Please try again.")
    /\ isLoading' = FALSE
    /\ event' = [op |-> "loadEmployees"]
    /\ UNCHANGED <<awaiting, settled, beyondEmployees>>

\* handleDelete up to its await (EmployeeList.tsx:70-72), called from a row of
\* the table (EmployeeList.tsx:133-137).  The handler is the one of the current
\* render, so the employeeList it will filter is the one on screen now.
EmployeeListHandleDelete(id) ==
    /\ route = "EmployeeList" /\ ~isLoading
    /\ \E i \in 1..Len(employeeList) : employeeList[i].id = id
    /\ Cardinality(awaiting) + Cardinality(settled) < MaxCalls
    /\ awaiting' = awaiting \cup
          {[call |-> Cardinality(awaiting) + Cardinality(settled) + 1,
            id |-> id, employeeList |-> employeeList]}
    /\ toast' = NoToast
    /\ event' = [op |-> "handleDelete", screen |-> "EmployeeList", id |-> id]
    /\ UNCHANGED <<employeeList, isLoading, settled, beyondEmployees>>

\* The list handleDelete stores on success (EmployeeList.tsx:74): the
\* employeeList of its closure without the deleted employee.
FilterClosure(closure, id) ==
    SelectSeq(closure, LAMBDA employee : employee.id # id)

\* The failure toast of handleDelete (EmployeeList.tsx:80-85).
EmployeeDeleteFailedToast(result) ==
    Toast("Cannot delete employee",
          OrString(result, "error", "Failed to delete the employee. Please try again."))

\* deleteEmployee settles and handleDelete resumes (EmployeeList.tsx:72-95).
EmployeeDeleteSettles(c, result) ==
    /\ c \in awaiting
    /\ awaiting' = awaiting \ {c}
    /\ settled' = settled \cup {[call |-> c.call, id |-> c.id, success |-> result.success]}
    /\ IF result.threw
       THEN /\ toast' = Toast("Error",
                              "An unexpected error occurred while deleting the employee.")
            /\ UNCHANGED employeeList
       ELSE IF result.success
       THEN /\ employeeList' = FilterClosure(c.employeeList, c.id)
            /\ toast' = Toast("Employee deleted",
                              "The employee has been successfully deleted.")
       ELSE /\ toast' = EmployeeDeleteFailedToast(result)
            /\ UNCHANGED employeeList
    /\ event' = [op |-> "deleteSettles", screen |-> "EmployeeList", id |-> c.id,
                 result |-> result]
    /\ UNCHANGED <<isLoading, beyondEmployees>>

NextEmployees ==
    \/ \E loaded \in BOOLEAN : LoadEmployeesSettles(loaded)
    \/ \E id \in EmployeeIds : EmployeeListHandleDelete(id)
    \/ \E c \in awaiting, result \in DeleteEmployeeResults : EmployeeDeleteSettles(c, result)

SpecEmployees == InitEmployees /\ [][NextEmployees]_vars

----------------------------------------------------------------------------
(* The count animation of the dashboard (useCountAnimation, part_000:46-71 and
   src/src/pages/Index.tsx:39-64). *)

\* The target of a count changes at most this many times.
MaxChanges == 2

\* The default of the duration parameter, in milliseconds (part_000:47).
Duration == 2000

\* The targets a count is rendered with: lengths of the fetched lists, 0 while
\* a list has not arrived (part_000:77-95, 101-105).
Ends == {0, 1, 3}

\* The time from one animation frame to the next, in milliseconds.
FrameSteps == {500, 1500}

\* What the edit form and the other screens hold.
beyondDashboard ==
    <<items, hasChanges, parties, commit, queries, deleting, display, employeeScreen>>

\* The frame an effect requests first: its closure has no startTime yet
\* (part_000:51, 66).  startTime 0 stands for undefined, which `!startTime`
\* (part_000:55) treats alike.
FirstFrame(n, id, e) == [effect |-> n, id |-> id, end |-> e, startTime |-> 0]

\* The dashboard mounted with a count of target e, after the first run of the
\* effect (part_000:48, 66).
InitCount ==
    /\ items = <<>>
    /\ customerId = ""
    /\ employeeId = ""
    /\ status = "pending"
    /\ isSubmitting = FALSE
    /\ hasChanges = FALSE
    /\ order = NoOrder
    /\ orderQuery = "pending"
    /\ customers = <<>>
    /\ employees = <<>>
    /\ products = <<>>
    /\ toast = NoToast
    /\ inflight = 0
    /\ invalidated = {}
    /\ route = "dashboard"
    /\ rejected = FALSE
    /\ deleting = [view |-> 0, list |-> 0]
    /\ display = NoDisplay
    /\ NoEmployeeScreen
    /\ count = 0
    /\ end \in Ends
    /\ animationFrameId = [effect |-> 1, id |-> 1]
    /\ pending = {FirstFrame(1, 1, end)}
    /\ requested = 1
    /\ clock = 100
    /\ mounted = TRUE
    /\ cancelled = {}
    /\ event = [op |-> "mount"]

\* Math.floor(end * progress) with progress = elapsed / duration (part_000:56, 59).
FlooredProgress(e, elapsed) == (e * elapsed) \div Duration

\* The variable animationFrameId after animate has requested frame id
\* (part_000:60): the one of the closure of the frame's effect.
RecordFrame(f, id) ==
    IF f.effect = animationFrameId.effect
    THEN [effect |-> f.effect, id |-> id]
    ELSE animationFrameId

\* animate with requestAnimationFrame's result not assigned.
AnimateNotRecording(f, dt) ==
    /\ f \in pending
    /\ LET currentTime == clock + dt
           startTime == IF f.startTime = 0 THEN currentTime ELSE f.startTime
           elapsed == currentTime - startTime
       IN  /\ clock' = currentTime
           /\ IF elapsed < Duration
              THEN /\ count' = IF mounted THEN FlooredProgress(f.end, elapsed) ELSE count
                   /\ requested' = requested + 1
                   /\ pending' = (pending \ {f}) \cup
                         {[effect |-> f.effect, id |-> requested + 1, end |-> f.end,
                           startTime |-> startTime]}
                   /\ UNCHANGED animationFrameId
                   /\ event' = [op |-> "animate", done |-> FALSE]
              ELSE /\ count' = IF mounted THEN f.end ELSE count
                   /\ pending' = pending \ {f}
                   /\ UNCHANGED <<requested, animationFrameId>>
                   /\ event' = [op |-> "animate", done |-> TRUE]
    /\ toast' = NoToast
    /\ UNCHANGED <<end, mounted, cancelled, beyondDashboard>>

\* The browser runs the requested frame f, dt after the last one: animate
\* (part_000:54-64) with the end and startTime of f's closure.  setCount does
\* nothing once the component is unmounted.
Animate(f, dt) ==
    /\ f \in pending
    /\ LET currentTime == clock + dt
           startTime == IF f.startTime = 0 THEN currentTime ELSE f.startTime
           elapsed == currentTime - startTime
       IN  /\ clock' = currentTime
           /\ IF elapsed < Duration
              THEN /\ count' = IF mounted THEN FlooredProgress(f.end, elapsed) ELSE count
                   /\ requested' = requested + 1
                   /\ pending' = (pending \ {f}) \cup
                         {[effect |-> f.effect, id |-> requested + 1, end |-> f.end,
                           startTime |-> startTime]}
                   /\ animationFrameId' = RecordFrame(f, requested + 1)
                   /\ event' = [op |-> "animate", done |-> FALSE]
              ELSE /\ count' = IF mounted THEN f.end ELSE count
                   /\ pending' = pending \ {f}
                   /\ UNCHANGED <<requested, animationFrameId>>
                   /\ event' = [op |-> "animate", done |-> TRUE]
    /\ toast' = NoToast
    /\ UNCHANGED <<end, mounted, cancelled, beyondDashboard>>

\* The frames left by cancelAnimationFrame(id).
AfterCancel(frames, id) == {f \in frames : f.id # id}

\* The hook is rendered with another end: the effect's cleanup runs
\* (part_000:67) and the effect runs again (part_000:50-66, 68).
EndChanges(e) ==
    /\ mounted /\ e # end
    /\ Cardinality(cancelled) < MaxChanges
    /\ end' = e
    /\ cancelled' = cancelled \cup {animationFrameId.id}
    /\ requested' = requested + 1
    /\ animationFrameId' = [effect |-> animationFrameId.effect + 1, id |-> requested + 1]
    /\ pending' = AfterCancel(pending, animationFrameId.id) \cup
          {FirstFrame(animationFrameId.effect + 1, requested + 1, e)}
    /\ toast' = NoToast
    /\ event' = [op |-> "endChanges"]
    /\ UNCHANGED <<count, clock, mounted, beyondDashboard>>

\* The dashboard unmounts: the effect's cleanup runs (part_000:67).
Unmount ==
    /\ mounted
    /\ mounted' = FALSE
    /\ cancelled' = cancelled \cup {animationFrameId.id}
    /\ pending' = AfterCancel(pending, animationFrameId.id)
    /\ toast' = NoToast
    /\ event' = [op |-> "unmount"]
    /\ UNCHANGED <<count, end, animationFrameId, requested, clock, beyondDashboard>>

\* A requested frame runs.
Frame == \E f \in pending, dt \in FrameSteps : Animate(f, dt)

NextCount ==
    \/ Frame
    \/ \E e \in Ends : EndChanges(e)
    \/ Unmount

SpecCount == InitCount /\ [][NextCount]_vars

\* The browser runs every frame requested, while the page is shown.
SpecCountFair == SpecCount /\ WF_vars(Frame)

----------------------------------------------------------------------------
(* The edit form as a whole, and its parts. *)

\* The whole form: every query, the selects, submit and its completion, and the
\* line-item handlers on one product.
Next ==
    \/ CustomersArrive
    \/ EmployeesArrive
    \/ ProductsArrive
    \/ \E o \in FetchedOrders : OrderEffect(o)
    \/ AddItem
    \/ \E id \in CallIds : RemoveItem(id)
    \/ \E id \in ItemIds(items) : UpdateItemPrice(id, "p2")
    \/ \E c \in {customers[i].id : i \in 1..Len(customers)} : SetCustomerId(c)
    \/ \E e \in {employees[i].id : i \in 1..Len(employees)} : SetEmployeeId(e)
    \/ \E value \in Statuses : SetStatus(value)
    \/ HandleSubmit
    \/ \E result \in SettleResults : UpdateOrderSettles(result)
    \/ Cancel

Spec == Init /\ [][Next]_vars

\* The line items: the order and catalog queries and every line-item handler,
\* over all the arguments of the model.
NextItems ==
    \/ ProductsArrive
    \/ \E o \in FetchedOrders : OrderEffect(o)
    \/ AddItem
    \/ \E id \in CallIds : RemoveItem(id)
    \/ \E id \in ItemIds(items), productId \in ProductIdArgs : UpdateItemPrice(id, productId)
    \/ \E id \in ItemIds(items), h \in QuantityArgs : UpdateItemQuantity(id, h)
    \/ \E id \in ItemIds(items), t \in QuantityTexts : QuantityInputChange(id, t)
    \/ \E id \in ItemIds(items), t \in PriceTexts : PriceInputChange(id, t)

SpecItems == Init /\ [][NextItems]_vars

\* The total of an order built from nothing: the catalog query, the fetched
\* order without items, addItem, the product select on p1 and p2, the
\* quantity input with the entries "3" and "10", and the clamp of the one who
\* uses the form.
EmptyOrders == { o \in FetchedOrders : OrArray(o, "items") = <<>> }

NextTotal ==
    \/ ProductsArrive
    \/ \E o \in EmptyOrders : OrderEffect(o)
    \/ AddItem
    \/ \E id \in ItemIds(items), productId \in {"p1", "p2"} : UpdateItemPrice(id, productId)
    \/ \E id \in ItemIds(items), t \in {NumberText(6), NumberText(20)} :
          QuantityInputChange(id, t)
    \/ \E id \in ItemIds(items) : ClampQuantityToStock(id)

SpecTotal == Init /\ [][NextTotal]_vars

\* The price of the line items: the order and catalog queries, addItem, the
\* product select and the price input over the wider entries.
NextPrice ==
    \/ ProductsArrive
    \/ \E o \in FetchedOrders : OrderEffect(o)
    \/ AddItem
    \/ \E id \in ItemIds(items) : UpdateItemPrice(id, "p2")
    \/ \E id \in ItemIds(items), t \in PriceTextsWide : PriceInputChange(id, t)

SpecPrice == Init /\ [][NextPrice]_vars

----------------------------------------------------------------------------
(* What the claims are stated with. *)

\* The sum of price * quantity over the items of its at the indexes in S.
RECURSIVE SumOver(_, _)
SumOver(its, S) ==
    IF S = {} THEN 0
    ELSE LET i == CHOOSE j \in S : TRUE
         IN  its[i].price * its[i].quantity + SumOver(its, S \ {i})

Selected(its) == { i \in 1..Len(its) : its[i].productId # "" }

\* Every item has a whole quantity of at least 1 and a price of at least 0.
WellFormed(its) ==
    \A i \in 1..Len(its) :
        /\ "quantity" \in DOMAIN its[i] /\ its[i].quantity >= 1
        /\ "price" \in DOMAIN its[i] /\ its[i].price >= 0

\* max(1, floor(h / 2)) by its defining inequalities: the whole number n >= 1
\* with n <= h / 2 < n + 1, and 1 when h / 2 < 1.
MaxOneFloor(h) ==
    CHOOSE n \in 1..(1 + Max(h, 0)) :
        \/ n = 1 /\ h < 4
        \/ 2 * n <= h /\ h < 2 * n + 2

\* The catalog product with the given id.
CatalogProduct(productId) ==
    CHOOSE p \in { Catalog[k] : k \in 1..Len(Catalog) } : p.id = productId

\* The stock of the product an item refers to, in the catalog snapshot held.
HasStock(item) == \E k \in 1..Len(products) : products[k].id = item.productId

StockOf(item) ==
    (CHOOSE p \in { products[k] : k \in 1..Len(products) } : p.id = item.productId).stock

\* its without its element at index i.
Without(its, i) == SubSeq(its, 1, i - 1) \o SubSeq(its, i + 1, Len(its))

Matching(its, id) == { i \in 1..Len(its) : its[i].id = id }

\* The customer and the employee selected are in the fetched lists.
PartiesFound ==
    /\ \E k \in 1..Len(customers) : customers[k].id = customerId
    /\ \E k \in 1..Len(employees) : employees[k].id = employeeId

\* The four conditions of validateForCommit.
FourHold ==
    /\ customerId # ""
    /\ employeeId # ""
    /\ Len(items) > 0
    /\ \A i \in 1..Len(items) : items[i].productId # ""

ValidationTitles == {"Customer required", "Employee required", "Products required"}

EditOps ==
    {"addItem", "removeItem", "updateItemPrice", "updateItemQuantity",
     "quantityInput", "priceInput"}

\* The handlers that edit one item.
ItemEditOps == {"updateItemPrice", "updateItemQuantity", "quantityInput", "priceInput"}

----------------------------------------------------------------------------
(* The claims. *)

\* C1: for every item sequence with whole quantities >= 1 and prices >= 0,
\* calculateTotal is the sum of price * quantity over the items with a
\* productId; items without one add nothing.
C1_TotalIsSumOfSelected ==
    WellFormed(items) => CalculateTotal(items) = SumOver(items, Selected(items))

\* C1 witness: two well-formed items, the first selected with quantity 3, the
\* second unselected with a price entered, and a total of 30.
C1_Witness ==
    /\ Len(items) = 2 /\ WellFormed(items)
    /\ items[1].productId = "p1" /\ items[1].quantity = 3
    /\ items[2].productId = "" /\ items[2].price = 10
    /\ CalculateTotal(items) = 30

\* C2: updateItemQuantity(id, q) leaves the target item with quantity
\* max(1, floor(q)), for negative and fractional q, with or without a product
\* selected and whatever the product's stock.
C2_QuantityIsMaxOneFloor ==
    [][event'.op = "updateItemQuantity" =>
          \A id \in ItemIds(items), h \in QuantityArgs :
              UpdateItemQuantity(id, h) =>
                  \A i \in Matching(items, id) : items'[i].quantity = MaxOneFloor(h)]_vars

\* C2 witness: updateItemQuantity has left quantity 3 on an item with no
\* product and on an item whose product has stock 1.
C2_Witness ==
    /\ event.op = "updateItemQuantity"
    /\ Len(items) = 2
    /\ items[1].productId = "p2" /\ items[1].quantity = 3
    /\ items[2].productId = "" /\ items[2].quantity = 3

\* C3: in every submit that calls updateOrder, the total of the argument is
\* the sum of price * quantity over the items of the argument.
C3_PayloadTotalIsSumOfItems ==
    (event.op = "handleSubmit" /\ event.outcome = "sent") =>
        event.payload.total = SumOver(event.payload.items, 1..Len(event.payload.items))

\* C3 witness: a submit has sent the fetched order whose first item has
\* quantity 0 and whose second item has no price.
C3_Witness ==
    /\ event.op = "handleSubmit" /\ event.outcome = "sent"
    /\ Len(items) = 2
    /\ items[1].quantity = 0
    /\ "price" \notin DOMAIN items[2]
    /\ event.payload.total = 10

\* C4: a submit of a form with no customer, no employee, no item or an item
\* without productId calls nothing, and where the checks run (no commit is in
\* flight) it raises a validation toast.
C4_InvalidIsRejected ==
    [][(event'.op = "handleSubmit" /\ ~FourHold) =>
          /\ inflight' = inflight
          /\ event'.outcome # "sent"
          /\ ~isSubmitting => (event'.outcome = "rejected"
                               /\ toast'.title \in ValidationTitles)]_vars

\* C4 witness: a submit has been rejected for an item without productId, the
\* customer and the employee being selected.
C4_Witness ==
    /\ event.op = "handleSubmit" /\ event.outcome = "rejected"
    /\ toast.title = "Products required"
    /\ customerId # "" /\ employeeId # "" /\ Len(items) > 0
    /\ \E i \in 1..Len(items) : items[i].productId = ""

\* C5, as claimed: every submit of a form on which the four conditions hold
\* calls updateOrder.
C5_FourSuffice ==
    [][(event'.op = "handleSubmit" /\ FourHold) => event'.outcome = "sent"]_vars

\* C5, amended: every submit of a form on which the four conditions hold, whose
\* customer and employee are in the fetched lists, made while no commit is in
\* flight, calls updateOrder.
C5_FourAndFoundSuffice ==
    [][(/\ event'.op = "handleSubmit"
        /\ FourHold
        /\ \E k \in 1..Len(customers) : customers[k].id = customerId
        /\ \E k \in 1..Len(employees) : employees[k].id = employeeId
        /\ ~isSubmitting) =>
          /\ event'.outcome = "sent"
          /\ inflight' = inflight + 1]_vars

\* C5 witness: a submit has called updateOrder.
C5_Witness ==
    /\ event.op = "handleSubmit" /\ event.outcome = "sent"
    /\ inflight = 1 /\ isSubmitting

\* C6: removeItem on a list of one item changes nothing of the form and raises
\* the "Cannot remove item" toast.
C6_LastItemIsKept ==
    [][(event'.op = "removeItem" /\ Len(items) = 1) =>
          /\ toast'.title = "Cannot remove item"
          /\ UNCHANGED <<items, hasChanges, parties, commit, queries>>]_vars

\* C6 witness: removeItem has refused to remove the only item.
C6_Witness ==
    /\ event.op = "removeItem" /\ toast.title = "Cannot remove item"
    /\ Len(items) = 1

C8_NeverEmpty == Rendered => Len(items) >= 1

\* C8, amended: no line-item handler empties a list that has an item; the list
\* is empty only as fetched, until addItem.
C8_EditsKeepAnItem ==
    [][(event'.op \in EditOps /\ Len(items) >= 1) => Len(items') >= 1]_vars

\* C8 witness: removeItem has run on two items and one is left.
C8_Witness ==
    /\ event.op = "removeItem" /\ hasChanges
    /\ Len(items) = 1
    /\ items[1].id \in {"u1", "u2"}

\* C9: every item with a product of the catalog snapshot has a quantity that
\* does not exceed the product's stock.
C9_QuantityWithinStock ==
    \A i \in 1..Len(items) :
        ("quantity" \in DOMAIN items[i] /\ HasStock(items[i])) =>
            items[i].quantity <= StockOf(items[i])

\* C10: updateItemPrice(id, productId) for a product of the catalog leaves the
\* target item with the product's id, name and price and with quantity 1.
C10_SelectCopiesProductAndResets ==
    [][event'.op = "updateItemPrice" =>
          \A id \in ItemIds(items), productId \in ProductIdArgs :
              (UpdateItemPrice(id, productId) /\ FindProduct(products, productId) # <<>>) =>
                  \A i \in Matching(items, id) :
                      /\ items'[i].productId = productId
                      /\ items'[i].productName = CatalogProduct(productId).name
                      /\ items'[i].price = CatalogProduct(productId).price
                      /\ items'[i].quantity = 1]_vars

\* C10 witness: the fetched item, of product p1 with quantity 3, has been given
\* product p2 and has quantity 1.
C10_Witness ==
    /\ event.op = "updateItemPrice"
    /\ order.id = "o1"
    /\ Len(items) >= 1
    /\ items[1].id = "i1" /\ items[1].productId = "p2"
    /\ items[1].price = 20 /\ items[1].quantity = 1

\* C11: the price input with an entry p >= 0, however large against the
\* catalog prices, leaves the target item with price p and its other fields as
\* they were; with a negative entry or one that is not a number it leaves the
\* item as it was.
C11_PriceSetWhenNonNegative ==
    [][event'.op = "priceInput" =>
          \A id \in ItemIds(items), t \in PriceTextsWide :
              PriceInputChange(id, t) =>
                  \A i \in Matching(items, id) :
                      IF t.text # "" /\ t.value >= 0
                      THEN items'[i] = Spread(items[i], [price |-> t.value])
                      ELSE items'[i] = items[i]]_vars

\* C11 witness: the price input has set price 0 on an item whose product has
\* price 20 and price 1000 on another.
C11_Witness ==
    /\ event.op = "priceInput" /\ hasChanges
    /\ \E i, j \in 1..Len(items) :
          /\ items[i].productId = "p2" /\ items[i].price = 0
          /\ "price" \in DOMAIN items[j] /\ items[j].price = 1000

\* C12: addItem can be called whenever the form is shown, and it leaves the
\* items it found, in their order and with their values, followed by one new
\* item that has no product, quantity 1, price 0 and an id that none of the
\* items it found holds.
C12_AddItemAppendsFreshItem ==
    [][/\ (Rendered /\ Len(items) < MaxItems) => ENABLED AddItem
       /\ event'.op = "addItem" =>
             /\ Len(items') = Len(items) + 1
             /\ SubSeq(items', 1, Len(items)) = items
             /\ items'[Len(items')].productId = ""
             /\ items'[Len(items')].productName = ""
             /\ items'[Len(items')].quantity = 1
             /\ items'[Len(items')].price = 0
             /\ items'[Len(items')].id \notin ItemIds(items)]_vars

\* C12 witness: addItem has added a second new item after a first whose
\* product, price and quantity have been edited since.
C12_Witness ==
    /\ event.op = "addItem"
    /\ Len(items) = 2
    /\ items[1].id = "u1" /\ items[1].productId = "p2" /\ items[1].quantity = 3
    /\ items[2] = [id |-> "u2", productId |-> "", productName |-> "",
                   quantity |-> 1, price |-> 0]

\* C13: a submit that a check rejects calls nothing and leaves the items, the
\* customer, the employee, the status and the submitting flag as they were,
\* with the form still shown; and a submit made after a rejection, once the
\* form passes the checks, calls updateOrder.
C13_RejectionIsRecoverable ==
    [][/\ (event'.op = "handleSubmit" /\ event'.outcome = "rejected") =>
             /\ inflight' = inflight
             /\ ~isSubmitting'
             /\ UNCHANGED <<items, parties, hasChanges, invalidated, route, queries>>
       /\ (/\ event'.op = "handleSubmit"
           /\ rejected
           /\ ~isSubmitting
           /\ FourHold /\ PartiesFound) =>
             /\ event'.outcome = "sent"
             /\ inflight' = inflight + 1]_vars

\* C13 witness: after a rejection, and with no earlier commit, a submit has
\* called updateOrder.
C13_Witness ==
    /\ event.op = "handleSubmit" /\ event.outcome = "sent"
    /\ rejected
    /\ inflight = 1

\* C14, as claimed: when updateOrder throws, the toast shows the message of the
\* error it threw.
C14_StoreErrorShown ==
    (event.op = "updateOrderSettles" /\ event.result.kind = "throws") =>
        toast.description = event.result.error

\* C14, amended: when updateOrder throws or returns no order, the toast is the
\* form's own "Update failed" with its fixed description, whatever the error;
\* the error itself goes to the console only.
C14_FixedMessageShown ==
    (event.op = "updateOrderSettles" /\ event.result.kind # "order") =>
        toast = Toast("Update failed",
                      "There was a problem updating the order. Please try again.")

\* C14 witness: updateOrder has thrown "permission denied" and the form has
\* raised its "Update failed" toast.
C14_Witness ==
    /\ event.op = "updateOrderSettles" /\ event.result.kind = "throws"
    /\ event.caught = "permission denied"
    /\ toast.title = "Update failed"

\* C15: a submit calls updateOrder at most once and no other step calls it;
\* when the call fails (an error thrown, or no order returned) the form takes
\* the call as ended and stays on the edit screen, and the failure changes
\* nothing of the items, the customer, the employee and the status, invalidates
\* no query and does not navigate.
C15_FailedCommitChangesNothing ==
    [][/\ event'.op = "handleSubmit" => inflight' \in {inflight, inflight + 1}
       /\ event'.op # "handleSubmit" => inflight' <= inflight
       /\ (event'.op = "updateOrderSettles" /\ event'.result.kind # "order") =>
             /\ inflight' = inflight - 1
             /\ route' = "edit"
             /\ UNCHANGED <<items, parties, hasChanges, invalidated, queries>>]_vars

\* C15 witness: the only call has failed with an error thrown; the form is on
\* the edit screen with the fetched order's items and parties, nothing is
\* invalidated and no call is in flight.
C15_Witness ==
    /\ event.op = "updateOrderSettles" /\ event.result.kind = "throws"
    /\ route = "edit" /\ invalidated = {} /\ inflight = 0
    /\ order.id = "o1" /\ items = order.items
    /\ customerId = "c1" /\ employeeId = "e1" /\ status = "processing"

\* C16: when deleteOrder reports failure, on the order view and on the order
\* list, the toast is "Cannot delete order" with the store's reason as its
\* text where the store gave one; the route, the invalidated queries and the
\* order stay as they were.  A delete step navigates or invalidates only on
\* success.
C16_DeleteRejectionShowsReason ==
    [][event'.op = "deleteSettles" =>
          /\ ~event'.result.success =>
                /\ toast'.title = "Cannot delete order"
                /\ "error" \in DOMAIN event'.result =>
                      toast'.description = event'.result.error
                /\ UNCHANGED <<route, invalidated, order, orderQuery>>
          /\ (route' # route \/ invalidated' # invalidated) => event'.result.success]_vars

\* C16 witness: the store has refused a delete made on the order view with a
\* reason; the toast shows the reason, the view is still shown and nothing is
\* invalidated.
C16_Witness ==
    /\ event.op = "deleteSettles" /\ event.screen = "view"
    /\ ~event.result.success
    /\ toast.description = "Only pending orders can be deleted"
    /\ route = "view" /\ OrderViewScreen = "details"
    /\ invalidated = {}

\* C17: once the order query of the order view has settled without an order,
\* the view shows "Order Not Found".
C17_NoOrderIsNotFound ==
    (route = "view" /\ orderQuery # "pending" /\ order = NoOrder) =>
        OrderViewScreen = "notFound"

\* C18: a date value that does not parse is rendered as "Invalid Date" by every
\* screen that shows it, the order view included, and the rendering does not
\* throw.
C18_MalformedDateIsInvalidDate ==
    /\ (display # NoDisplay /\ display.value # "" /\ display.value \notin ParsableDates) =>
          display.result = Returned(<<"Invalid Date">>)
    /\ (/\ route = "view" /\ orderQuery = "success" /\ order # NoOrder
        /\ order.createdAt \notin ParsableDates) =>
          OrderViewScreen = "details"

\* C19: whatever the status of the form, the status select can set each of
\* the four values and the status is then the value set; a submit that calls
\* updateOrder sends the status the form holds, which is the last one set.
C19_StatusIsFreeForm ==
    [][/\ Rendered => \A value \in Statuses : ENABLED SetStatus(value)
       /\ event'.op = "setStatus" =>
             \A value \in Statuses : SetStatus(value) => status' = value
       /\ (event'.op = "handleSubmit" /\ event'.outcome = "sent") =>
             event'.payload.status = status]_vars

\* C19 witness: an order fetched as "completed" has been set to "pending" and
\* sent so.
C19_Witness ==
    /\ event.op = "handleSubmit" /\ event.outcome = "sent"
    /\ OrString(order, "status", "pending") = "completed"
    /\ event.payload.status = "pending"

\* C20: when the items of the fetched order have whole quantities >= 1 and
\* prices >= 0 and the catalog prices are >= 0, then after every sequence of
\* line-item edits every item of the form has a whole quantity >= 1 and a
\* price >= 0.
C20_EditsKeepBounds ==
    (/\ Rendered
     /\ WellFormed(OrArray(order, "items"))
     /\ \A k \in 1..Len(products) : products[k].price >= 0) =>
        /\ WellFormed(items)
        /\ \A i \in 1..Len(items) : items[i].quantity \in Nat

\* C20 witness: on the fetched order with one item of quantity 3, the quantity
\* handler has been given -1.5 and left quantity 1, and a second item has a
\* price typed in.
C20_Witness ==
    /\ event.op = "updateItemQuantity"
    /\ order.id = "o1" /\ WellFormed(order.items)
    /\ Len(items) = 2
    /\ items[1].id = "i1" /\ items[1].productId = "p1" /\ items[1].quantity = 1
    /\ items[2].price = 10


\* C21: the product select, the quantity handler, the quantity input and the
\* price input leave the list as long as it was and every item at its position
\* with its id, and change the values of at most one item.
C21_EditsKeepIdsAndOrder ==
    [][event'.op \in ItemEditOps =>
          /\ Len(items') = Len(items)
          /\ \A i \in 1..Len(items) : items'[i].id = items[i].id
          /\ Cardinality({i \in 1..Len(items) : items'[i] # items[i]}) <= 1]_vars

\* C21 witness: of the two items fetched, the second has been given product p2
\* and keeps its id and place; the first is as fetched.
C21_Witness ==
    /\ event.op = "updateItemPrice"
    /\ order.id = "o2" /\ Len(items) = 2
    /\ items[1] = order.items[1]
    /\ items[2].id = "i2" /\ items[2].productId = "p2"


\* C22: the maximum offered by an item's quantity input is the stock of the
\* item's product in the catalog held, and 0 when the item has no product or
\* the catalog held has no product with the item's productId.
C22_MaxQuantityIsStock ==
    Rendered =>
        \A i \in 1..Len(items) :
            MaxQuantity(items[i], products) =
                IF items[i].productId # "" /\ HasStock(items[i]) THEN StockOf(items[i]) ELSE 0

\* C22 witness: with the catalog held, the first item has product p1 of stock 5
\* and the second has no product.
C22_Witness ==
    /\ Rendered /\ products = Catalog
    /\ Len(items) = 2
    /\ items[1].productId = "p1" /\ MaxQuantity(items[1], products) = 5
    /\ items[2].productId = "" /\ MaxQuantity(items[2], products) = 0

\* C23: on an order built from nothing with two items added, the first given
\* product p1 (price 10, stock 5) and quantity 3, the second product p2
\* (price 20, stock 1) and quantity 10, the total is 230 as the handlers leave
\* it, and clamping the second item to its stock leaves it quantity 1 and the
\* total 50.
C23_ScenarioTotalIsFifty ==
    [][(/\ Len(OrArray(order, "items")) = 0
        /\ Len(items) = 2
        /\ items[1].productId = "p1" /\ items[1].quantity = 3
        /\ items[2].productId = "p2" /\ items[2].quantity = 10
        /\ ClampQuantityToStock(items[2].id)) =>
          /\ CalculateTotal(items) = 230
          /\ items'[2].quantity = 1
          /\ CalculateTotal(items') = 50]_vars

\* C23 witness: the scenario has run to its end: two added items, p1 with
\* quantity 3 and p2 with quantity 1 after the clamp, and a total of 50.
C23_Witness ==
    /\ event.op = "clampQuantityToStock"
    /\ order.id = "o3"
    /\ Len(items) = 2
    /\ items[1].id = "u1" /\ items[1].productId = "p1" /\ items[1].quantity = 3
    /\ items[2].id = "u2" /\ items[2].productId = "p2" /\ items[2].quantity = 1
    /\ CalculateTotal(items) = 50


\* A step that calls updateOrder.
IssuesWrite == inflight' > inflight

\* C24: in no state of the form can addItem, removeItem, the product select,
\* the quantity handler and input, the price input, the customer, employee and
\* status selects or Cancel call updateOrder; handleSubmit can call it only
\* when the checks pass and no call is awaited, and then once.
C24_OnlySubmitWrites ==
    Rendered =>
        /\ ~ENABLED (AddItem /\ IssuesWrite)
        /\ \A id \in CallIds :
              /\ ~ENABLED (RemoveItem(id) /\ IssuesWrite)
              /\ \A productId \in ProductIdArgs :
                    ~ENABLED (UpdateItemPrice(id, productId) /\ IssuesWrite)
              /\ \A h \in QuantityArgs : ~ENABLED (UpdateItemQuantity(id, h) /\ IssuesWrite)
              /\ \A t \in QuantityTexts : ~ENABLED (QuantityInputChange(id, t) /\ IssuesWrite)
              /\ \A t \in PriceTexts : ~ENABLED (PriceInputChange(id, t) /\ IssuesWrite)
        /\ \A c \in {"", "c1"} : ~ENABLED (SetCustomerId(c) /\ IssuesWrite)
        /\ \A e \in {"", "e1"} : ~ENABLED (SetEmployeeId(e) /\ IssuesWrite)
        /\ \A value \in Statuses : ~ENABLED (SetStatus(value) /\ IssuesWrite)
        /\ ~ENABLED (Cancel /\ IssuesWrite)
        /\ ~ENABLED (HandleSubmit /\ IssuesWrite
                     /\ ~(FourHold /\ PartiesFound /\ ~isSubmitting /\ inflight' = inflight + 1))

\* C24 witness: the form has been left by Cancel with edits made to the items
\* of the fetched order, no call awaited and nothing invalidated.
C24_Witness ==
    /\ event.op = "cancel"
    /\ hasChanges /\ items # OrArray(order, "items")
    /\ inflight = 0 /\ invalidated = {} /\ ~rejected

\* The employees on screen.
Displayed == {employeeList[i].id : i \in 1..Len(employeeList)}

\* The employees with a delete that succeeded.
Deleted == {s.id : s \in {t \in settled : t.success}}

\* C25: in the employee list, once every delete request has completed, in
\* whatever order the requests started and completed, the list on screen holds
\* no employee whose delete succeeded and holds every employee whose delete
\* failed or was never requested.
C25_DeletedAreGoneOthersStay ==
    (awaiting = {} /\ settled # {}) =>
        /\ Displayed \cap Deleted = {}
        /\ EmployeeIds \ Deleted \subseteq Displayed

\* C26: at most one commit is in flight per edit form.  A submit made while
\* isSubmitting is true calls updateOrder not at all; isSubmitting is true
\* exactly while a call is awaited, every way the call can settle (an order,
\* nothing, an error thrown) sets it back to false, and a valid form that is
\* not submitting can be submitted.
C26_OneCommitInFlight ==
    /\ inflight <= 1
    /\ isSubmitting <=> (inflight = 1)
    /\ (Rendered /\ isSubmitting) => ~ENABLED (HandleSubmit /\ inflight' # inflight)
    /\ \A result \in SettleResults : ~ENABLED (UpdateOrderSettles(result) /\ isSubmitting')
    /\ (Rendered /\ ~isSubmitting /\ FourHold /\ PartiesFound) =>
          ENABLED (HandleSubmit /\ inflight' = inflight + 1)

\* A commit has failed with an error thrown, and the form can be submitted
\* again.
C26_Witness ==
    /\ event.op = "updateOrderSettles" /\ event.result.kind = "throws"
    /\ Rendered /\ ~isSubmitting /\ inflight = 0
    /\ FourHold /\ PartiesFound

\* C27: each time fetched order data arrives or changes, the edit form takes
\* items, customerId, employeeId and status from the fetched order (status
\* "pending" and an empty item list when the order has none) and sets
\* hasChanges to false, whether or not the form held unsaved edits.
C27_FetchedOrderReplacesForm ==
    [][event'.op = "order" =>
          /\ order' \in FetchedOrders /\ order' # order
          /\ items' = (IF "items" \in DOMAIN order' THEN order'.items ELSE <<>>)
          /\ customerId' = order'.customerId
          /\ employeeId' = order'.employeeId
          /\ status' = (IF "status" \in DOMAIN order' THEN order'.status ELSE "pending")
          /\ hasChanges' = FALSE]_vars

\* An order without a status has arrived in a form with unsaved edits: the
\* edits are gone and the status is "pending".
C27_Witness ==
    /\ event.op = "order" /\ event.edited
    /\ "status" \notin DOMAIN order /\ status = "pending"
    /\ items = order.items /\ ~hasChanges

\* The step sets hasChanges to true.
SetsHasChanges == hasChanges' = TRUE

\* The step changes items or hasChanges.
TouchesItems == <<items, hasChanges>>' # <<items, hasChanges>>

\* The catalog on hand holds the product.
KnownProduct(productId) == \E i \in 1..Len(products) : products[i].id = productId

\* The entry is a number that is not negative.
PriceEntryAccepted(t) == t.text # "" /\ t.value >= 0

\* C28: in the order edit form, while hasChanges is false the item sequence is
\* that of the last loaded order.  Every accepted addItem, removeItem, product
\* selection, quantity edit and price edit sets hasChanges to true; a removeItem
\* on a single item, a price entry that is no number or is negative, and the
\* selection of a product the catalog lacks change neither items nor hasChanges.
C28_UnchangedMeansAsLoaded ==
    Rendered =>
        /\ ~hasChanges => items = (IF "items" \in DOMAIN order THEN order.items ELSE <<>>)
        /\ ~ENABLED (AddItem /\ ~SetsHasChanges)
        /\ \A id \in CallIds :
              /\ IF Len(items) > 1
                 THEN ~ENABLED (RemoveItem(id) /\ ~SetsHasChanges)
                 ELSE ~ENABLED (RemoveItem(id) /\ TouchesItems)
              /\ \A productId \in ProductIdArgs :
                    IF KnownProduct(productId)
                    THEN ~ENABLED (UpdateItemPrice(id, productId) /\ ~SetsHasChanges)
                    ELSE ~ENABLED (UpdateItemPrice(id, productId) /\ TouchesItems)
              /\ \A h \in QuantityArgs : ~ENABLED (UpdateItemQuantity(id, h) /\ ~SetsHasChanges)
              /\ \A t \in PriceTexts :
                    IF PriceEntryAccepted(t)
                    THEN ~ENABLED (PriceInputChange(id, t) /\ ~SetsHasChanges)
                    ELSE ~ENABLED (PriceInputChange(id, t) /\ TouchesItems)

\* removeItem has been refused on the single item of a form without edits:
\* the items are those of the order.
C28_Witness ==
    /\ event.op = "removeItem" /\ toast.title = "Cannot remove item"
    /\ Rendered /\ ~hasChanges
    /\ Len(items) = 1 /\ items = order.items

\* The ids of the products in a sequence.
IdsOf(prods) == {prods[k].id : k \in 1..Len(prods)}

\* C29: the products offered for selection on a line item are exactly the
\* products of the catalog on hand whose status is available and that have
\* stock above 0 or are the item's current product, each once and in catalog
\* order; a product that is not available is never offered, not even as the
\* item's current product.
C29_OfferedAreAvailable ==
    Rendered =>
        \A i \in 1..Len(items) :
            LET offered == Offered(items[i], products)
            IN  /\ IdsOf(offered) =
                      {p.id : p \in {q \in {products[k] : k \in 1..Len(products)} :
                          /\ q.status = "available"
                          /\ q.stock > 0 \/ q.id = items[i].productId}}
                /\ \A k \in 1..Len(offered) : offered[k].status = "available"
                /\ \A j, k \in 1..Len(offered) : j < k =>
                      \E m, n \in 1..Len(products) :
                          m < n /\ products[m] = offered[j] /\ products[n] = offered[k]

\* The catalog has arrived in a form with two items: the first holds an
\* available product out of stock, which its select offers and the second's
\* does not; the second holds an unavailable product, which no select offers.
C29_Witness ==
    /\ Rendered /\ products = Catalog /\ Len(items) = 2
    /\ items[1].productId = "p3" /\ items[2].productId = "p4"
    /\ IdsOf(Offered(items[1], products)) = {"p1", "p2", "p3"}
    /\ IdsOf(Offered(items[2], products)) = {"p1", "p2"}

\* The count is animated towards the end it was mounted with.
EndFixed == animationFrameId.effect = 1

\* The count lies between 0 and its target while the target is the first one.
CountWithinEnd == EndFixed => 0 <= count /\ count <= end

\* No frame is requested once the animation has set the count to end: a
\* mounted count without a pending frame shows end, and the frame that found
\* the duration elapsed requested none.
NoFrameAfterEnd ==
    /\ (mounted /\ pending = {}) => count = end
    /\ (mounted /\ event.op = "animate" /\ event.done) => (count = end /\ pending = {})

\* No frame of an earlier animation is pending, at most one frame is, and none
\* is after the unmount.
EarlierFramesCancelled ==
    /\ \A f \in pending : f.effect = animationFrameId.effect /\ f.id = animationFrameId.id
    /\ Cardinality(pending) <= 1
    /\ ~mounted => pending = {}

\* A mounted count whose target stays the same comes to show it, with no
\* frame pending.
ReachesEnd ==
    \A e \in Ends : \A n \in 1..(MaxChanges + 1) :
        (mounted /\ end = e /\ animationFrameId.effect = n)
            ~> (\/ ~mounted
                \/ animationFrameId.effect # n
                \/ count = e /\ pending = {})

\* C30 as stated: for a fixed target the count shown requests no frame once it
\* equals end.
C30_NoFrameOnceAtEnd ==
    (mounted /\ EndFixed /\ count = end) => pending = {}

\* C30: the count animation of the dashboard, for a fixed target end >= 0,
\* shows a value that is always between 0 and end and eventually equals end,
\* and requests no further frame once the duration has elapsed and it has set
\* the value to end (with end = 0 the value equals end from the start, and
\* frames are requested until then); when the target changes or the component
\* unmounts, the pending frame of the previous animation is cancelled.
C30_CountAnimationEnds ==
    /\ []CountWithinEnd
    /\ []NoFrameAfterEnd
    /\ []EarlierFramesCancelled
    /\ ReachesEnd

\* After a change of target that cancelled a frame, the animation towards 3
\* has run to its end: the count is 3 and no frame is pending.
C30_Witness ==
    /\ mounted /\ event.op = "animate" /\ event.done
    /\ end = 3 /\ count = 3 /\ pending = {}
    /\ cancelled # {} /\ requested > Cardinality(cancelled) + 2

=============================================================================
